---- MODULE Spec2Model ----
(***************************************************************************)
(* Model of visualize.py: a linear script that loads output/predictions.csv *)
(* into a DataFrame, renders four subplots (scatter with R^2, time series,  *)
(* error histogram with mean/std, residual plot), writes the figure to      *)
(* output/prediction_analysis.png, prints a completion message and shows    *)
(* the figure.                                                              *)
(*                                                                          *)
(* Numbers: prices are integers (as read_csv parses digit cells); derived   *)
(* statistics are exact rationals kept in lowest terms, and a square root   *)
(* is kept as the root of a rational.  NaN is a value of its own.           *)
(***************************************************************************)
EXTENDS Integers, Sequences, FiniteSets

\* ---------------------------------------------------------------- bounds
MaxRows == 3
MaxPrice == 1
\* Files holding a text cell are enumerated up to this many rows.
MaxTextRows == 2

\* ---------------------------------------------------------------- values
\* A raw cell of the csv file: digits, nothing, or text that is no number.
RawInt(v) == [t |-> "int", v |-> v]
RawBlank == [t |-> "blank", v |-> 0]
RawText == [t |-> "text", v |-> 0]
NumericCells == {RawInt(v) : v \in 0..MaxPrice} \cup {RawBlank}
RawCells == NumericCells \cup {RawText}

\* A cell of a DataFrame column: a number, NaN, or a str object.
Num(v) == [t |-> "num", v |-> v]
NaN == [t |-> "nan", v |-> 0]
Str(v) == [t |-> "str", v |-> v]

IsNum(c) == c.t = "num"
IsNaN(c) == c.t = "nan"
IsStr(c) == c.t = "str"

\* A derived statistic: NaN, a rational num/den in lowest terms (den > 0),
\* or a signed square root  sign * sqrt(num/den).
StatNaN == [t |-> "nan", sign |-> 0, num |-> 0, den |-> 1]

Abs(x) == IF x < 0 THEN -x ELSE x
Sgn(x) == IF x < 0 THEN -1 ELSE IF x = 0 THEN 0 ELSE 1

RECURSIVE GCD(_, _)
GCD(a, b) == IF b = 0 THEN a ELSE GCD(b, a % b)

Rat(n, d) ==
    LET g == GCD(Abs(n), Abs(d))
    IN  [t |-> "rat", sign |-> Sgn(n) * Sgn(d), num |-> Abs(n) \div g, den |-> Abs(d) \div g]

Root(s, n, d) ==
    LET g == GCD(Abs(n), Abs(d))
    IN  [t |-> "sqrt", sign |-> s, num |-> Abs(n) \div g, den |-> Abs(d) \div g]

RECURSIVE SumSeq(_)
SumSeq(s) == IF s = <<>> THEN 0 ELSE Head(s) + SumSeq(Tail(s))

\* ------------------------------------------------------------ input file
\* output/predictions.csv: absent, a file of zero bytes, or a header naming
\* some of the columns followed by rows of raw cells.
Columns == {"Actual", "Predicted"}

RowsOver(cols) ==
    UNION ( {[1..n -> [cols -> NumericCells]] : n \in 0..MaxRows}
            \cup {[1..n -> [cols -> RawCells]] : n \in 0..MaxTextRows} )

CsvFiles ==
    { [kind |-> "csv", cols |-> Columns, rows |-> r] : r \in RowsOver(Columns) }
    \cup { [kind |-> "csv", cols |-> {c}, rows |-> <<>>] : c \in Columns }
    \cup { [kind |-> "csv", cols |-> {}, rows |-> <<>>] }

\* The worked example of the documentation: actual 10,20,30 against 12,19,31.
ExampleRows ==
    << [Actual |-> RawInt(10), Predicted |-> RawInt(12)],
       [Actual |-> RawInt(20), Predicted |-> RawInt(19)],
       [Actual |-> RawInt(30), Predicted |-> RawInt(31)] >>

ExampleFile == [kind |-> "csv", cols |-> Columns, rows |-> ExampleRows]

Files ==
    { [kind |-> "missing", cols |-> {}, rows |-> <<>>],
      [kind |-> "empty", cols |-> {}, rows |-> <<>>] }
    \cup CsvFiles \cup {ExampleFile}

\* ------------------------------------------------------------- read_csv
\* pd.read_csv types each column: a column with a text cell is an object
\* column of str (blank cells NaN); otherwise digits are numbers and blank
\* cells NaN.  Every column has one cell per row.
HasText(rows, c) == \E i \in 1..Len(rows) : rows[i][c].t = "text"

ParseCell(raw, text) ==
    IF raw.t = "blank" THEN NaN
    ELSE IF text THEN Str(raw.v)
    ELSE Num(raw.v)

ReadCsv(f) ==
    [cols |-> f.cols,
     data |-> [i \in 1..Len(f.rows) |->
                 [c \in f.cols |-> ParseCell(f.rows[i][c], HasText(f.rows, c))]]]

EmptyFrame == [cols |-> {}, data |-> <<>>]

\* df[c]: the column as a sequence, in row order.
Column(frame, c) == [i \in 1..Len(frame.data) |-> frame.data[i][c]]

AnyStr(col) == \E i \in 1..Len(col) : IsStr(col[i])
AnyNaN(col) == \E i \in 1..Len(col) : IsNaN(col[i])

\* --------------------------------------------------------- the arithmetic
\* Series - Series: both columns carry the frame's RangeIndex, so the
\* subtraction is positional; NaN on either side gives NaN.
Sub(a, p) == IF IsNum(a) /\ IsNum(p) THEN Num(a.v - p.v) ELSE NaN

\* Mutation: the operands of the subtraction exchanged.
ErrorsSwapped(frame) ==
    [i \in 1..Len(frame.data) |-> Sub(frame.data[i]["Predicted"], frame.data[i]["Actual"])]

ErrorsOf(frame) ==
    [i \in 1..Len(frame.data) |-> Sub(frame.data[i]["Actual"], frame.data[i]["Predicted"])]

\* The numbers of a series that are not NaN (pandas reductions skip NaN).
Valid(series) ==
    LET kept == SelectSeq(series, IsNum)
    IN  [i \in 1..Len(kept) |-> kept[i].v]

\* Series.mean(): the sum of the non-NaN values over their count.
MeanOf(series) ==
    LET xs == Valid(series)
    IN  IF Len(xs) = 0 THEN StatNaN ELSE Rat(SumSeq(xs), Len(xs))

\* Series.std(): ddof = 1 over the non-NaN values; NaN below two values.
\* sum (x - mean)^2 / (count - 1), written over the common denominator.
SumSqDev(xs) ==
    LET n == Len(xs)
        s == SumSeq(xs)
    IN  SumSeq([i \in 1..n |-> (n * xs[i] - s) * (n * xs[i] - s)])

\* Mutation: the population standard deviation (ddof = 0).
StdPopulation(series) ==
    LET xs == Valid(series)
        n == Len(xs)
    IN  IF n <= 0 THEN StatNaN
        ELSE Root(1, SumSqDev(xs), n * n * n)

StdOf(series) ==
    LET xs == Valid(series)
        n == Len(xs)
    IN  IF n - 1 <= 0 THEN StatNaN
        ELSE Root(1, SumSqDev(xs), n * n * (n - 1))

\* Mutation: the covariance normalised by the variance of actual alone.
CorrcoefByActualVariance(a, p) ==
    IF AnyNaN(a) \/ AnyNaN(p) THEN StatNaN
    ELSE LET n == Len(a)
             sa == SumSeq([i \in 1..n |-> a[i].v])
             sp == SumSeq([i \in 1..n |-> p[i].v])
             c01 == SumSeq([i \in 1..n |-> (n * a[i].v - sa) * (n * p[i].v - sp)])
             c00 == SumSeq([i \in 1..n |-> (n * a[i].v - sa) * (n * a[i].v - sa)])
         IN  IF c00 = 0 THEN StatNaN
             ELSE Root(Sgn(c01), c01 * c01, c00 * c00)

\* Mutation: a zero variance answered with a correlation of 0 instead of NaN.
CorrcoefFlatIsZero(a, p) ==
    IF AnyNaN(a) \/ AnyNaN(p) THEN StatNaN
    ELSE LET n == Len(a)
             sa == SumSeq([i \in 1..n |-> a[i].v])
             sp == SumSeq([i \in 1..n |-> p[i].v])
             c01 == SumSeq([i \in 1..n |-> (n * a[i].v - sa) * (n * p[i].v - sp)])
             c00 == SumSeq([i \in 1..n |-> (n * a[i].v - sa) * (n * a[i].v - sa)])
             c11 == SumSeq([i \in 1..n |-> (n * p[i].v - sp) * (n * p[i].v - sp)])
         IN  IF c00 * c11 = 0 THEN Root(0, 0, 1)
             ELSE Root(Sgn(c01), c01 * c01, c00 * c11)

\* np.corrcoef(a, p)[0, 1]: cov(a, p) / sqrt(var(a) * var(p)), the
\* deviations taken from each mean; NaN data, or a zero variance (0/0),
\* give NaN.  The common factor 1/(n^2 (n-1)) cancels.
Corrcoef(a, p) ==
    IF AnyNaN(a) \/ AnyNaN(p) THEN StatNaN
    ELSE LET n == Len(a)
             sa == SumSeq([i \in 1..n |-> a[i].v])
             sp == SumSeq([i \in 1..n |-> p[i].v])
             c01 == SumSeq([i \in 1..n |-> (n * a[i].v - sa) * (n * p[i].v - sp)])
             c00 == SumSeq([i \in 1..n |-> (n * a[i].v - sa) * (n * a[i].v - sa)])
             c11 == SumSeq([i \in 1..n |-> (n * p[i].v - sp) * (n * p[i].v - sp)])
         IN  IF c00 * c11 = 0 THEN StatNaN
             ELSE Root(Sgn(c01), c01 * c01, c00 * c11)

\* correlation ** 2
Square(r) == IF r.t = "nan" THEN StatNaN ELSE Rat(r.sign * r.sign * r.num, r.den)

\* ------------------------------------------------------------ the script
VARIABLES
    file,        \* output/predictions.csv as found on disk (never written)
    pc,          \* the statement group about to run, "done" or "failed"
    fault,       \* the exception that ended the run, or "none"
    df,          \* the DataFrame
    correlation, r_squared,
    errors, mean_error, std_error,
    drawn,       \* what each of the four axes has had plotted on it
    annotated,   \* the statistics written on each of the four axes
    bound,       \* for each script variable, the block that assigned it (-1: unbound)
    reads,       \* for each subplot block, the script variables it has read
    image,       \* number of times output/prediction_analysis.png was written
    printed,     \* number of completion messages printed
    shown        \* plt.show() has returned

vars == <<file, pc, fault, df, correlation, r_squared, errors, mean_error,
          std_error, drawn, annotated, bound, reads, image, printed, shown>>

\* The script's variables, and its blocks: 0 is the prologue (read_csv,
\* plt.subplots), 1..4 the sections the comments number "# 1." to "# 4.".
Names == {"df", "fig", "axes", "ax1", "min_val", "max_val", "correlation",
          "r_squared", "ax2", "ax3", "errors", "mean_error", "std_error", "ax4"}
Blocks == 1..4

Assign(names, b) == [x \in Names |-> IF x \in names THEN b ELSE bound[x]]
Read(names, b) == [reads EXCEPT ![b] = @ \cup names]

Init ==
    /\ file \in Files
    /\ pc = "load"
    /\ fault = "none"
    /\ df = EmptyFrame
    /\ correlation = StatNaN
    /\ r_squared = StatNaN
    /\ errors = <<>>
    /\ mean_error = StatNaN
    /\ std_error = StatNaN
    /\ drawn = [b \in Blocks |-> <<>>]
    /\ annotated = [b \in Blocks |-> <<>>]
    /\ bound = [x \in Names |-> -1]
    /\ reads = [b \in Blocks |-> {}]
    /\ image = 0
    /\ printed = 0
    /\ shown = FALSE

\* Mutation: the exception caught and the script carried on to the save.
RaiseAndContinue(exc) ==
    /\ pc' = "save"
    /\ fault' = exc

\* An exception nobody catches: the interpreter prints the traceback and
\* exits; nothing after the raising statement runs.
Raise(exc) ==
    /\ pc' = "failed"
    /\ fault' = exc

\* line 6: df = pd.read_csv('output/predictions.csv')
Load ==
    /\ pc = "load"
    /\ IF file.kind = "missing" THEN
            /\ Raise("FileNotFoundError")
            /\ UNCHANGED <<df, bound>>
       ELSE IF file.kind = "empty" THEN
            /\ Raise("EmptyDataError")
            /\ UNCHANGED <<df, bound>>
       ELSE /\ df' = ReadCsv(file)
            /\ bound' = Assign({"df"}, 0)
            /\ pc' = "figure"
            /\ UNCHANGED fault
    /\ UNCHANGED <<file, correlation, r_squared, errors, mean_error, std_error,
                   drawn, annotated, reads, image, printed, shown>>

\* lines 9-10: fig, axes = plt.subplots(2, 2, ...); fig.suptitle(...)
Figure ==
    /\ pc = "figure"
    /\ bound' = Assign({"fig", "axes"}, 0)
    /\ pc' = "scatter"
    /\ UNCHANGED <<file, fault, df, correlation, r_squared, errors, mean_error,
                   std_error, drawn, annotated, reads, image, printed, shown>>

\* A name that is read before any statement bound it raises NameError.
Unbound(names) == \E x \in names : bound[x] = -1

\* df['Actual'] / df['Predicted'] raise KeyError when the header lacks them.
LacksColumn(frame) == ~ (Columns \subseteq frame.cols)

\* Lines 15-16 compare the columns' extremes.  An object column that mixes
\* str with NaN cannot be reduced, and min(str, number) cannot be compared.
Incomparable(frame) ==
    LET a == Column(frame, "Actual")
        p == Column(frame, "Predicted")
    IN  \/ AnyStr(a) /\ AnyNaN(a)
        \/ AnyStr(p) /\ AnyNaN(p)
        \/ AnyStr(a) # AnyStr(p)

\* np.corrcoef on object columns: columns of str cannot be averaged, and the
\* columns of a frame without rows are empty object columns whose mean
\* divides by a zero count.
CorrFault(frame) ==
    IF Len(frame.data) = 0 THEN "ZeroDivisionError"
    ELSE IF AnyStr(Column(frame, "Actual")) \/ AnyStr(Column(frame, "Predicted"))
         THEN "TypeError"
    ELSE "none"

\* ax.hist finds its range with nanmin/nanmax; when every error is NaN there
\* is none and np.histogram raises ValueError.
HistFault(series) ==
    IF Len(series) > 0 /\ SelectSeq(series, IsNum) = <<>> THEN "ValueError" ELSE "none"

ScatterPoints(frame) ==
    [i \in 1..Len(frame.data) |-> <<frame.data[i]["Actual"], frame.data[i]["Predicted"]>>]

SeriesPoints(frame) ==
    [i \in 1..Len(frame.data) |->
        <<Num(i - 1), frame.data[i]["Actual"], frame.data[i]["Predicted"]>>]

ResidualPoints(frame, errs) ==
    [i \in 1..Len(frame.data) |-> <<frame.data[i]["Predicted"], errs[i]>>]

\* lines 13-22 (block 1): scatter of Actual against Predicted and the diagonal
Scatter ==
    /\ pc = "scatter"
    /\ IF Unbound({"axes", "df"}) THEN
            /\ Raise("NameError")
            /\ reads' = Read({"axes", "df"}, 1)
            /\ UNCHANGED <<drawn, bound>>
       ELSE IF LacksColumn(df) THEN
            /\ Raise("KeyError")
            /\ reads' = Read({"axes", "df", "ax1"}, 1)
            /\ UNCHANGED drawn
            /\ bound' = Assign({"ax1"}, 1)
       ELSE IF Incomparable(df) THEN
            /\ Raise("TypeError")
            /\ reads' = Read({"axes", "df", "ax1"}, 1)
            /\ UNCHANGED drawn
            /\ bound' = Assign({"ax1"}, 1)
       ELSE /\ drawn' = [drawn EXCEPT ![1] = ScatterPoints(df)]
            /\ bound' = Assign({"ax1", "min_val", "max_val"}, 1)
            /\ pc' = "corr"
            /\ UNCHANGED fault
            /\ reads' = Read({"axes", "df", "ax1", "min_val", "max_val"}, 1)
    /\ UNCHANGED <<file, df, correlation, r_squared, errors, mean_error,
                   std_error, annotated, image, printed, shown>>

\* lines 25-28 (block 1): correlation, r_squared and the R^2 text on ax1
Corr ==
    /\ pc = "corr"
    /\ IF Unbound({"df", "ax1"}) THEN
            /\ Raise("NameError")
            /\ reads' = Read({"df"}, 1)
            /\ UNCHANGED <<correlation, r_squared, annotated, bound>>
       ELSE IF CorrFault(df) # "none" THEN
            /\ Raise(CorrFault(df))
            /\ reads' = Read({"df"}, 1)
            /\ UNCHANGED <<correlation, r_squared, annotated, bound>>
       ELSE /\ correlation' = Corrcoef(Column(df, "Actual"), Column(df, "Predicted"))
            /\ r_squared' = Square(correlation')
            /\ annotated' = [annotated EXCEPT ![1] = <<r_squared'>>]
            /\ bound' = Assign({"correlation", "r_squared"}, 1)
            /\ pc' = "series"
            /\ UNCHANGED fault
            /\ reads' = Read({"df", "correlation", "r_squared", "ax1"}, 1)
    /\ UNCHANGED <<file, df, errors, mean_error, std_error, drawn, image,
                   printed, shown>>

\* lines 31-38 (block 2): both series against the row index
TimeSeries ==
    /\ pc = "series"
    /\ IF Unbound({"axes", "df"}) THEN
            /\ Raise("NameError")
            /\ reads' = Read({"axes", "df"}, 2)
            /\ UNCHANGED <<drawn, bound>>
       ELSE /\ drawn' = [drawn EXCEPT ![2] = SeriesPoints(df)]
            /\ bound' = Assign({"ax2"}, 2)
            /\ pc' = "errors"
            /\ UNCHANGED fault
            /\ reads' = Read({"axes", "df", "ax2"}, 2)
    /\ UNCHANGED <<file, df, correlation, r_squared, errors, mean_error,
                   std_error, annotated, image, printed, shown>>

\* lines 41-42 (block 3): ax3 = axes[1, 0]; errors = df['Actual'] - df['Predicted']
Errors ==
    /\ pc = "errors"
    /\ IF Unbound({"axes", "df"}) THEN
            /\ Raise("NameError")
            /\ reads' = Read({"axes", "df"}, 3)
            /\ UNCHANGED <<errors, bound>>
       ELSE /\ errors' = ErrorsOf(df)
            /\ bound' = Assign({"ax3", "errors"}, 3)
            /\ pc' = "hist"
            /\ UNCHANGED fault
            /\ reads' = Read({"axes", "df"}, 3)
    /\ UNCHANGED <<file, df, correlation, r_squared, mean_error, std_error,
                   drawn, annotated, image, printed, shown>>

\* lines 43-49 (block 3): histogram of the errors
Hist ==
    /\ pc = "hist"
    /\ IF Unbound({"ax3", "errors"}) THEN
            /\ Raise("NameError")
            /\ reads' = Read({"ax3", "errors"}, 3)
            /\ UNCHANGED drawn
       ELSE IF HistFault(errors) # "none" THEN
            /\ Raise(HistFault(errors))
            /\ reads' = Read({"ax3", "errors"}, 3)
            /\ UNCHANGED drawn
       ELSE /\ drawn' = [drawn EXCEPT ![3] = SelectSeq(errors, IsNum)]
            /\ pc' = "stats"
            /\ UNCHANGED fault
            /\ reads' = Read({"ax3", "errors"}, 3)
    /\ UNCHANGED <<file, df, correlation, r_squared, errors, mean_error,
                   std_error, annotated, bound, image, printed, shown>>

\* lines 52-56 (block 3): mean_error, std_error and their text on ax3
Stats ==
    /\ pc = "stats"
    /\ IF Unbound({"errors", "ax3"}) THEN
            /\ Raise("NameError")
            /\ reads' = Read({"errors"}, 3)
            /\ UNCHANGED <<mean_error, std_error, annotated, bound>>
       ELSE /\ mean_error' = MeanOf(errors)
            /\ std_error' = StdOf(errors)
            /\ annotated' = [annotated EXCEPT ![3] = <<mean_error', std_error'>>]
            /\ bound' = Assign({"mean_error", "std_error"}, 3)
            /\ pc' = "residual"
            /\ UNCHANGED fault
            /\ reads' = Read({"errors", "mean_error", "std_error", "ax3"}, 3)
    /\ UNCHANGED <<file, df, correlation, r_squared, errors, drawn, image,
                   printed, shown>>

\* Mutation: the residual plot rebuilding its errors from the frame instead
\* of reading those of block 3.
ResidualRecomputed ==
    /\ pc = "residual"
    /\ drawn' = [drawn EXCEPT ![4] = ResidualPoints(df, ErrorsOf(df))]
    /\ reads' = Read({"axes", "df", "ax4"}, 4)
    /\ bound' = Assign({"ax4"}, 4)
    /\ pc' = "save"
    /\ UNCHANGED <<file, fault, df, correlation, r_squared, errors, mean_error,
                   std_error, annotated, image, printed, shown>>

\* lines 59-65 (block 4): scatter of the errors against Predicted
Residual ==
    /\ pc = "residual"
    /\ IF Unbound({"axes", "df", "errors"}) THEN
            /\ Raise("NameError")
            /\ reads' = Read({"axes", "df", "errors"}, 4)
            /\ UNCHANGED <<drawn, bound>>
       ELSE /\ drawn' = [drawn EXCEPT ![4] = ResidualPoints(df, errors)]
            /\ bound' = Assign({"ax4"}, 4)
            /\ pc' = "save"
            /\ UNCHANGED fault
            /\ reads' = Read({"axes", "df", "errors", "ax4"}, 4)
    /\ UNCHANGED <<file, df, correlation, r_squared, errors, mean_error,
                   std_error, annotated, image, printed, shown>>

\* lines 67-68: plt.tight_layout(); plt.savefig('output/prediction_analysis.png', ...)
Save ==
    /\ pc = "save"
    /\ image' = image + 1
    /\ pc' = "print"
    /\ UNCHANGED <<file, fault, df, correlation, r_squared, errors, mean_error,
                   std_error, drawn, annotated, bound, reads, printed, shown>>

\* Mutation: the message printed ahead of the savefig.
PrintBeforeSave ==
    /\ pc = "save"
    /\ printed' = printed + 1
    /\ pc' = "print"
    /\ UNCHANGED <<file, fault, df, correlation, r_squared, errors, mean_error,
                   std_error, drawn, annotated, bound, reads, image, shown>>

\* line 69: print("Visualization saved to output/prediction_analysis.png")
PrintMessage ==
    /\ pc = "print"
    /\ printed' = printed + 1
    /\ pc' = "show"
    /\ UNCHANGED <<file, fault, df, correlation, r_squared, errors, mean_error,
                   std_error, drawn, annotated, bound, reads, image, shown>>

\* line 70: plt.show(), which returns when the window is dismissed
Show ==
    /\ pc = "show"
    /\ shown' = TRUE
    /\ pc' = "done"
    /\ UNCHANGED <<file, fault, df, correlation, r_squared, errors, mean_error,
                   std_error, drawn, annotated, bound, reads, image, printed>>

Next ==
    \/ Load
    \/ Figure
    \/ Scatter
    \/ Corr
    \/ TimeSeries
    \/ Errors
    \/ Hist
    \/ Stats
    \/ Residual
    \/ Save
    \/ PrintMessage
    \/ Show

Spec == Init /\ [][Next]_vars

\* The interpreter runs each statement as soon as the last one returns.
FairSpec == Spec /\ WF_vars(Next)

\* ================================================================ claims
\* What the claims speak of, stated over the input file as it is on disk.
NRows == Len(file.rows)
IsCsvWithBoth == file.kind = "csv" /\ file.cols = Columns
RawA(i) == file.rows[i]["Actual"]
RawP(i) == file.rows[i]["Predicted"]
BothInts(i) == RawA(i).t = "int" /\ RawP(i).t = "int"
AllPresent == IsCsvWithBoth /\ \A i \in 1..NRows : BothInts(i)
NoText == IsCsvWithBoth /\ \A i \in 1..NRows : RawA(i).t # "text" /\ RawP(i).t # "text"
IsBound(x) == bound[x] # -1
Completed == pc = "done"

\* C1: once computed, the error sequence has one entry per record, in row
\* order, and entry i is actual[i] - predicted[i] (NaN where a field of the
\* record is missing).
C1_ErrorIsActualMinusPredicted ==
    IsBound("errors") =>
        /\ Len(errors) = NRows
        /\ \A i \in 1..NRows :
              IF BothInts(i)
              THEN errors[i].t = "num" /\ errors[i].v = RawA(i).v - RawP(i).v
              ELSE errors[i] = NaN

C1_Witness ==
    /\ Completed
    /\ NRows >= 2
    /\ \E i, j \in 1..NRows :
          /\ errors[i].t = "num" /\ errors[i].v < 0
          /\ errors[j].t = "num" /\ errors[j].v > 0

\* C2 (as claimed): for a non-empty record sequence the annotated mean error
\* is the sum of every record's error over the number of records; a sum that
\* counts a missing error is itself missing.
C2_MeanCountsEveryRecord ==
    (IsBound("mean_error") /\ NRows > 0) =>
        IF \A i \in 1..NRows : errors[i].t = "num"
        THEN mean_error = Rat(SumSeq([i \in 1..NRows |-> errors[i].v]), NRows)
        ELSE mean_error = StatNaN

\* C3: the annotated standard deviation is the sample standard deviation of
\* the errors, sqrt(sum of squared deviations from the mean / (n - 1)) with n
\* the number of errors that are numbers, and NaN when n < 2; for the worked
\* example the errors are -2, 1, -1, the mean rounds to -0.667 and the
\* standard deviation is sqrt(7/3), which rounds to 1.528.
C3_StdIsSampleStd ==
    IsBound("std_error") =>
        LET xs == Valid(errors)
            n == Len(xs)
            s == SumSeq(xs)
            sq == SumSeq([i \in 1..n |-> xs[i] * xs[i]])
        IN  /\ IF n < 2 THEN std_error = StatNaN
               ELSE /\ std_error.t = "sqrt"
                    /\ std_error.sign = 1
                    /\ std_error.num * (n * (n - 1)) = std_error.den * (n * sq - s * s)
            /\ annotated[3] = <<mean_error, std_error>>
            /\ file = ExampleFile =>
                  /\ errors = <<Num(-2), Num(1), Num(-1)>>
                  /\ mean_error.sign = -1
                  /\ 1333 * mean_error.den < 2000 * mean_error.num
                  /\ 2000 * mean_error.num < 1335 * mean_error.den
                  /\ std_error.num = 7 /\ std_error.den = 3
                  /\ 3055 * 3055 * std_error.den < 4000000 * std_error.num
                  /\ 4000000 * std_error.num < 3057 * 3057 * std_error.den

C3_Witness ==
    /\ Completed
    /\ file = ExampleFile
    /\ std_error.t = "sqrt"

\* C4: the displayed R^2 is the square of the Pearson correlation of actual
\* and predicted over all records (NaN when a value is missing or a variance
\* is zero), and when both series have a non-zero variance it lies in [0, 1].
C4_RSquaredIsPearsonSquared ==
    IsBound("r_squared") =>
        /\ annotated[1] = <<r_squared>>
        /\ correlation.t = "nan" <=> r_squared.t = "nan"
        /\ correlation.t # "nan" =>
              /\ r_squared.t = "rat"
              /\ r_squared.num = correlation.num /\ r_squared.den = correlation.den
        /\ ~AllPresent => r_squared = StatNaN
        /\ AllPresent =>
              LET n == NRows
                  sa == SumSeq([i \in 1..n |-> RawA(i).v])
                  sp == SumSeq([i \in 1..n |-> RawP(i).v])
                  sap == SumSeq([i \in 1..n |-> RawA(i).v * RawP(i).v])
                  saa == SumSeq([i \in 1..n |-> RawA(i).v * RawA(i).v])
                  spp == SumSeq([i \in 1..n |-> RawP(i).v * RawP(i).v])
                  cov == n * sap - sa * sp
                  va == n * saa - sa * sa
                  vp == n * spp - sp * sp
              IN  IF va = 0 \/ vp = 0 THEN r_squared = StatNaN
                  ELSE /\ r_squared = Rat(cov * cov, va * vp)
                       /\ correlation.sign = Sgn(cov)
                       /\ r_squared.sign >= 0
                       /\ r_squared.num <= r_squared.den

C4_Witness ==
    /\ Completed
    /\ correlation.sign = -1
    /\ r_squared.t = "rat"
    /\ r_squared.num > 0
    /\ r_squared.num < r_squared.den

\* C5: when every record has actual = predicted, every error is zero, the
\* mean error is zero, and R^2 is 1 if the series varies and NaN if it does
\* not.
Perfect == AllPresent /\ \A i \in 1..NRows : RawA(i).v = RawP(i).v
Varies == \E i, j \in 1..NRows : RawA(i).v # RawA(j).v

C5_PerfectPrediction ==
    Perfect =>
        /\ IsBound("errors") => \A i \in 1..Len(errors) : errors[i] = Num(0)
        /\ IsBound("mean_error") => mean_error = Rat(0, 1)
        /\ IsBound("r_squared") =>
              IF Varies THEN r_squared = Rat(1, 1) ELSE r_squared = StatNaN

C5_Witness ==
    /\ Completed
    /\ Perfect
    /\ Varies
    /\ r_squared = Rat(1, 1)
    /\ mean_error = Rat(0, 1)

C5_WitnessFlat ==
    /\ Completed
    /\ Perfect
    /\ ~Varies
    /\ r_squared = StatNaN

\* C6: a fault is never caught: the run stops at the raising statement, no
\* step follows it, and a failed run has written no image, printed no message
\* and shown nothing; a missing or zero-byte file, a missing column, a text
\* cell and a header without rows each stop the run before the figure is saved.
FailingInput ==
    \/ file.kind \in {"missing", "empty"}
    \/ file.cols # Columns
    \/ NRows = 0
    \/ \E i \in 1..NRows : RawA(i).t = "text" \/ RawP(i).t = "text"

C6_FailedRunWritesNothing ==
    /\ pc = "failed" <=> fault # "none"
    /\ pc = "failed" => image = 0 /\ printed = 0 /\ ~shown
    /\ FailingInput => pc \notin {"save", "print", "show", "done"}
    /\ FailingInput => image = 0 /\ printed = 0 /\ ~shown

C6_FailurePropagates == []C6_FailedRunWritesNothing /\ [][pc # "failed"]_vars

C6_Witness ==
    /\ pc = "failed"
    /\ fault = "ZeroDivisionError"
    /\ drawn[2] = <<>>
    /\ IsBound("ax1")
    /\ image = 0

\* C7: the data is loaded before anything is drawn, all four subplots are
\* drawn before the image is written, the image is written once and before
\* the single completion message, and the message before the figure is shown.
AllDrawn ==
    /\ \A b \in Blocks : drawn[b] # <<>>
    /\ IsBound("r_squared") /\ IsBound("mean_error") /\ IsBound("std_error")

C7_StepsInOrder ==
    /\ (\E b \in Blocks : drawn[b] # <<>>) => bound["df"] = 0
    /\ image \in {0, 1}
    /\ printed \in {0, 1}
    /\ image = 1 => AllDrawn
    /\ printed = 1 => image = 1
    /\ shown => printed = 1
    /\ Completed <=> shown
    /\ pc = "print" => image = 1 /\ printed = 0
    /\ pc = "show" => printed = 1 /\ ~shown

C7_Witness ==
    /\ Completed
    /\ image = 1
    /\ printed = 1
    /\ shown
    /\ AllDrawn

\* C8 (as claimed): every record used by the correlation and by the error
\* statistics has both fields present and numeric, the pairing is by
\* position everywhere, and both summaries use the same records.
\* np.corrcoef is handed the whole columns; mean() and std() use the errors
\* that are not NaN.
UsedByCorrelation == 1..Len(df.data)
UsedByStatistics == {i \in 1..Len(errors) : IsNum(errors[i])}
Complete(i) == IsNum(df.data[i]["Actual"]) /\ IsNum(df.data[i]["Predicted"])

C8_RecordsUsedAreComplete ==
    /\ IsBound("correlation") => \A i \in UsedByCorrelation : Complete(i)
    /\ IsBound("mean_error") =>
          /\ \A i \in UsedByStatistics : Complete(i)
          /\ UsedByStatistics = UsedByCorrelation
    /\ IsBound("errors") => Len(errors) = Len(df.data)
    /\ drawn[1] # <<>> => drawn[1] = ScatterPoints(df)
    /\ drawn[4] # <<>> => drawn[4] = ResidualPoints(df, errors)

\* C9 (as claimed): when all actual values are equal, or all predicted
\* values are equal, R^2 is NaN, no fault is raised and the run goes on.
FlatA == \A i \in 1..NRows : RawA(i).t = "int" /\ RawA(i) = RawA(1)
FlatP == \A i \in 1..NRows : RawP(i).t = "int" /\ RawP(i) = RawP(1)

C9_ZeroVarianceRunCompletes ==
    (NoText /\ NRows > 0 /\ (FlatA \/ FlatP)) =>
        /\ pc # "failed"
        /\ IsBound("r_squared") => r_squared = StatNaN

\* C10 (as claimed): a subplot's block reads only the prologue's variables
\* (the loaded data, the axes) and variables its own block assigned.
C10_SubplotsIndependent ==
    \A b \in Blocks : \A x \in reads[b] : bound[x] \in {0, b}

\* C10 (amended): blocks 1, 2 and 3 read only the prologue's variables and
\* their own; block 4 also reads errors, which block 3 assigned, and plots
\* it against predicted, so it is drawn only after block 3 has run; the
\* errors it plots are actual - predicted of the loaded data.
C10_OnlyResidualReadsAnotherBlock ==
    /\ \A b \in Blocks : \A x \in reads[b] :
          \/ bound[x] \in {0, b}
          \/ b = 4 /\ x = "errors" /\ bound[x] = 3
    /\ drawn[4] # <<>> =>
          /\ "errors" \in reads[4]
          /\ bound["errors"] = 3
          /\ Len(drawn[4]) = NRows
          /\ \A i \in 1..NRows :
                drawn[4][i] = <<df.data[i]["Predicted"],
                                Sub(df.data[i]["Actual"], df.data[i]["Predicted"])>>

C10_Witness ==
    /\ Completed
    /\ "errors" \in reads[4]
    /\ bound["errors"] = 3
    /\ drawn[4] # <<>>

====
